---- MODULE Spec2Model ----
(***************************************************************************)
(* A model of src/src/Native/VsChromiumNative.cpp: the exported functions  *)
(* of the VsChromium native search kernel.                                 *)
(*                                                                         *)
(* Pointers into a buffer are modelled as offsets from the buffer's first  *)
(* element (text = 0, text + textLen = textLen); element i of a C buffer   *)
(* is element i + 1 of the TLA+ sequence.  A dereference outside           *)
(* [0, textLen) is undefined behaviour: it either faults (the call never   *)
(* returns) or yields an arbitrary character.                              *)
(***************************************************************************)
EXTENDS Integers, Sequences, FiniteSets, TLC

VARIABLES
    \* ---- GetLineExtentFromPosition ----
    charType,     \* "char" (Ascii_ entry point) or "wchar_t" (Utf16_ entry point)
    text,         \* the buffer handed to the call, a sequence of code units
    position,     \* argument
    maxOffset,    \* argument
    le,           \* the outcome of the last line-extent call
    \* ---- Text_GetKind / Ascii_Compare ----
    bytes1,       \* first byte buffer (each byte 0..255 as stored in memory)
    bytes2,       \* second byte buffer (Ascii_Compare only)
    tk,           \* the outcome of the last Text_GetKind / Ascii_Compare call
    \* ---- Utf16_Search ----
    wtext,        \* wide text
    wpattern,     \* wide pattern
    woptions,     \* SearchOptions bit set
    ws,           \* the outcome of the last Utf16_Search call
    \* ---- AsciiSearchAlgorithm_* ----
    heap,         \* live AsciiSearchBase objects: address -> class
    createResult, \* the caller's SearchCreateResult record
    cr,           \* the outcome of the last Create / Delete call
    srch          \* the in-flight Search call and its SearchParams

varsLine == <<charType, text, position, maxOffset, le>>
varsText == <<bytes1, bytes2, tk>>
varsWide == <<wtext, wpattern, woptions, ws>>
varsEngine == <<heap, createResult, cr, srch>>
vars == <<charType, text, position, maxOffset, le, bytes1, bytes2, tk,
          wtext, wpattern, woptions, ws, heap, createResult, cr, srch>>

\* ---------------------------------------------------------------- bounds
MaxLen == 3
MaxKindLen == 4
MaxCmpLen == 3
MaxWideTextLen == 3
MaxWidePatternLen == 2
MaxInstances == 1
MaxScanLen == 3
MaxCancelCalls == 2

\* ------------------------------------------------------------- utilities
Min2(a, b) == IF a < b THEN a ELSE b
Max2(a, b) == IF a > b THEN a ELSE b

SeqsUpTo(S, n) == UNION {[1..k -> S] : k \in 0..n}

\* ===================================================================
\* GetLineExtentFromPosition (template over CharType)
\* ===================================================================

\* const CharType nl = '\n';
NL == 10
\* code units used to fill buffers: '\n', '\r', 'a', and U+010A (a wide
\* character whose low byte equals '\n')
Chars8 == {NL, 13, 97}
Chars16 == {NL, 97, 266}
CharsOf(ct) == IF ct = "char" THEN Chars8 ELSE Chars16

\* What *p can yield for an offset p: the element when p is inside the
\* buffer; otherwise a fault or any character of the type.
InBuffer(t, p) == 0 <= p /\ p < Len(t)
Deref(t, ct, p) ==
    IF InBuffer(t, p) THEN {[fault |-> FALSE, ch |-> t[p + 1]]}
    ELSE {[fault |-> TRUE, ch |-> NL]} \cup {[fault |-> FALSE, ch |-> c] : c \in CharsOf(ct)}

\* for (; start > low; start--) { if (*start == nl) break; }
\* The set of possible outcomes [ptr, reads, fault].
RECURSIVE BackwardScan(_, _, _, _, _)
BackwardScan(t, ct, start, low, reads) ==
    IF start > low
    THEN UNION {
           IF d.fault THEN {[ptr |-> start, reads |-> reads \cup {start}, fault |-> TRUE]}
           ELSE IF d.ch = NL THEN {[ptr |-> start, reads |-> reads \cup {start}, fault |-> FALSE]}
           ELSE BackwardScan(t, ct, start - 1, low, reads \cup {start})
           : d \in Deref(t, ct, start)}
    ELSE {[ptr |-> start, reads |-> reads, fault |-> FALSE]}

\* for (; end < high; end++) { if (*end == nl) break; }
RECURSIVE ForwardScan(_, _, _, _, _)
ForwardScan(t, ct, end, high, reads) ==
    IF end < high
    THEN UNION {
           IF d.fault THEN {[ptr |-> end, reads |-> reads \cup {end}, fault |-> TRUE]}
           ELSE IF d.ch = NL THEN {[ptr |-> end, reads |-> reads \cup {end}, fault |-> FALSE]}
           ELSE ForwardScan(t, ct, end + 1, high, reads \cup {end})
           : d \in Deref(t, ct, end)}
    ELSE {[ptr |-> end, reads |-> reads, fault |-> FALSE]}

\* const CharType* low = max(text, text + position - maxOffset);
LowBound_NoClamp(pos, maxOff) == pos - maxOff
LowBound(pos, maxOff) == Max2(0, pos - maxOff)
\* const CharType* high = min(text + textLen, text + position + maxOffset);
HighBound(textLen, pos, maxOff) == Min2(textLen, pos + maxOff)

NoLineCall ==
    [op |-> "none", fault |-> FALSE, ret |-> FALSE, lineStartPosition |-> 0,
     lineLen |-> 0, reads |-> {}, low |-> 0, high |-> 0, start |-> 0, end |-> 0,
     asserts |-> TRUE]

\* The possible outcomes of one call of the template.
GetLineExtentFromPosition(t, ct, textLen, pos, maxOff) ==
    LET low == LowBound(pos, maxOff)
        high == HighBound(textLen, pos, maxOff)
        current == pos
    IN UNION {
         IF b.fault
         THEN {[NoLineCall EXCEPT !.op = ct, !.fault = TRUE, !.reads = b.reads,
                                  !.low = low, !.high = high, !.start = b.ptr]}
         ELSE {IF f.fault
               THEN [NoLineCall EXCEPT !.op = ct, !.fault = TRUE, !.reads = f.reads,
                                       !.low = low, !.high = high, !.start = b.ptr,
                                       !.end = f.ptr]
               ELSE [op |-> ct, fault |-> FALSE, ret |-> TRUE,
                     lineStartPosition |-> b.ptr,        \* start - text
                     lineLen |-> f.ptr - b.ptr,          \* end - start
                     reads |-> f.reads, low |-> low, high |-> high,
                     start |-> b.ptr, end |-> f.ptr,
                     asserts |-> /\ low <= b.ptr /\ b.ptr <= high
                                 /\ low <= f.ptr /\ f.ptr <= high]
               : f \in ForwardScan(t, ct, current, high, b.reads)}
         : b \in BackwardScan(t, ct, current, low, {})}

Ascii_GetLineExtentFromPosition ==
    /\ le.op = "none"
    /\ charType = "char"
    /\ le' \in GetLineExtentFromPosition(text, charType, Len(text), position, maxOffset)
    /\ UNCHANGED <<charType, text, position, maxOffset>>
    /\ UNCHANGED <<varsText, varsWide, varsEngine>>

Utf16_GetLineExtentFromPosition ==
    /\ le.op = "none"
    /\ charType = "wchar_t"
    /\ le' \in GetLineExtentFromPosition(text, charType, Len(text), position, maxOffset)
    /\ UNCHANGED <<charType, text, position, maxOffset>>
    /\ UNCHANGED <<varsText, varsWide, varsEngine>>

\* ---- properties of GetLineExtentFromPosition ---------------------------
LineCallReturned == le.op /= "none" /\ ~le.fault
NewlinesIn(t) == {i \in 0 .. Len(t) - 1 : t[i + 1] = NL}
\* nearest newline strictly before p / at or after p (sets are non-empty where used)
NlBefore(t, p) == {i \in NewlinesIn(t) : i < p}
NlAtOrAfter(t, p) == {i \in NewlinesIn(t) : i >= p}
MaxOf(S) == CHOOSE x \in S : \A y \in S : y <= x
MinOf(S) == CHOOSE x \in S : \A y \in S : x <= y

\* the case C1 is about: p indexes a non-newline character and both
\* neighbouring newlines exist and lie within p +/- maxOffset
C1_Case ==
    /\ InBuffer(text, position) /\ text[position + 1] /= NL
    /\ NlBefore(text, position) /= {} /\ NlAtOrAfter(text, position) /= {}
    /\ MaxOf(NlBefore(text, position)) >= position - maxOffset
    /\ MinOf(NlAtOrAfter(text, position)) <= position + maxOffset

\* C1: with both neighbouring newlines (at a and b) within reach, the call
\* returns exactly the enclosing line without its newlines:
\* lineStart = a + 1 and lineLength = b - (a + 1).
C1_ExactLine ==
    (le.op /= "none" /\ C1_Case) =>
        /\ ~le.fault
        /\ le.lineStartPosition = MaxOf(NlBefore(text, position)) + 1
        /\ le.lineLen = MinOf(NlAtOrAfter(text, position))
                          - (MaxOf(NlBefore(text, position)) + 1)

\* C2: every character index dereferenced by the two scans lies in
\* [0, textLength) and in [position - maxOffset, position + maxOffset],
\* whatever the position and maxOffset arguments are.
C2_ReadsInRange ==
    le.op /= "none" =>
        \A i \in le.reads :
            /\ 0 <= i /\ i < Len(text)
            /\ position - maxOffset <= i /\ i <= position + maxOffset

\* the case C8 is about: p inside the buffer, a radius >= 0, and no newline
\* strictly between the clamped window bounds
C8_Case ==
    /\ 0 <= position /\ position < Len(text) /\ maxOffset >= 0
    /\ \A i \in NewlinesIn(text) :
          ~(Max2(0, position - maxOffset) < i /\ i < Min2(Len(text), position + maxOffset))

\* C8: when no newline is in reach the result is clipped to the radius:
\* lineStart = max(0, p - maxOffset) and
\* lineStart + lineLength = min(textLength, p + maxOffset).
C8_ClippedToRadius ==
    (le.op /= "none" /\ C8_Case) =>
        /\ ~le.fault /\ le.ret
        /\ le.lineStartPosition = Max2(0, position - maxOffset)
        /\ le.lineStartPosition + le.lineLen = Min2(Len(text), position + maxOffset)

\* C8 as amended: when no newline occurs at index p nor at any index
\* strictly between max(0, p - maxOffset) and min(textLength, p + maxOffset),
\* lineStart = max(0, p - maxOffset) and
\* lineStart + lineLength = min(textLength, p + maxOffset).
C8_ClippedToRadiusAmended ==
    (le.op /= "none" /\ C8_Case /\ text[position + 1] /= NL) =>
        /\ ~le.fault /\ le.ret
        /\ le.lineStartPosition = Max2(0, position - maxOffset)
        /\ le.lineStartPosition + le.lineLen = Min2(Len(text), position + maxOffset)

\* a clipped call whose line goes on past the window: the full radius is
\* returned on both sides and the character after the region is no newline
C8_Witness ==
    /\ LineCallReturned /\ C8_Case /\ text[position + 1] /= NL
    /\ maxOffset >= 1
    /\ le.lineStartPosition + le.lineLen < Len(text)
    /\ text[le.lineStartPosition + le.lineLen + 1] /= NL
    /\ le.lineLen = 2 * maxOffset

\* C10: for 0 <= position <= textLen and maxOffset >= 0 the four assertions
\* hold, the call returns true, lineLen >= 0,
\* 0 <= lineStartPosition <= position <= lineStartPosition + lineLen <= textLen,
\* for the 8-bit and the wide entry point alike.
C10_AssertsAndOutputs ==
    (le.op /= "none" /\ 0 <= position /\ position <= Len(text) /\ maxOffset >= 0) =>
        /\ ~le.fault /\ le.ret /\ le.asserts
        /\ le.lineLen >= 0
        /\ 0 <= le.lineStartPosition /\ le.lineStartPosition <= position
        /\ position <= le.lineStartPosition + le.lineLen
        /\ le.lineStartPosition + le.lineLen <= Len(text)

\* ===================================================================
\* Text_GetKind and Ascii_Compare
\* ===================================================================

\* The bytes used to fill buffers: 'A', 0x7F, 0x80 and the three BOM bytes.
KindBytes == {65, 127, 128, 187, 191, 239}
CmpBytes == {65, 66, 128}

\* text[i] read through a const char*: char is signed 8-bit.
CharAt(buf, i) == IF buf[i + 1] >= 128 THEN buf[i + 1] - 256 ELSE buf[i + 1]
\* static_cast<uint8_t>(x)
ToUint8(x) == x % 256

\* bool Text_HasUtf8Bom(const char *text, int textLen)
Text_HasUtf8Bom(buf, textLen) ==
    /\ textLen >= 3
    /\ ToUint8(CharAt(buf, 0)) = ToUint8(239)
    /\ ToUint8(CharAt(buf, 1)) = ToUint8(187)
    /\ ToUint8(CharAt(buf, 2)) = ToUint8(191)

\* for(; textPtr < textEndPtr; textPtr++) { if (*textPtr > asciiLimit) return false; }
\* return true;          (textPtr reads through a const uint8_t*)
RECURSIVE IsAsciiLoop(_, _, _)
IsAsciiLoop(buf, textPtr, textEndPtr) ==
    IF textPtr < textEndPtr
    THEN IF buf[textPtr + 1] > 127 THEN FALSE
         ELSE IsAsciiLoop(buf, textPtr + 1, textEndPtr)
    ELSE TRUE

\* the same loop with the limit test off by one (>= asciiLimit)
RECURSIVE IsAsciiLoop_Ge(_, _, _)
IsAsciiLoop_Ge(buf, textPtr, textEndPtr) ==
    IF textPtr < textEndPtr
    THEN IF buf[textPtr + 1] >= 127 THEN FALSE
         ELSE IsAsciiLoop_Ge(buf, textPtr + 1, textEndPtr)
    ELSE TRUE

Text_IsAscii_Ge(buf, textPtr, textLen) == IsAsciiLoop_Ge(buf, textPtr, textPtr + textLen)
\* bool Text_IsAscii(const char* text, int textLen); textPtr is the offset
\* of the pointer argument in buf
Text_IsAscii(buf, textPtr, textLen) == IsAsciiLoop(buf, textPtr, textPtr + textLen)

\* TextKind Text_GetKind(const char* text, int textLen)
Text_GetKind(buf, textLen) ==
    IF Text_HasUtf8Bom(buf, textLen)
    THEN IF Text_IsAscii(buf, 3, textLen - 3) THEN "AsciiWithUtf8Bom" ELSE "Utf8WithBom"
    ELSE IF Text_IsAscii(buf, 0, textLen) THEN "Ascii" ELSE "Unknown"

\* memcmp(a, b, n): the sign of the first differing pair of unsigned bytes
RECURSIVE Memcmp(_, _, _, _)
Memcmp(a, b, i, n) ==
    IF i >= n THEN 0
    ELSE IF a[i + 1] < b[i + 1] THEN -1
    ELSE IF a[i + 1] > b[i + 1] THEN 1
    ELSE Memcmp(a, b, i + 1, n)

\* the comparison without its length test, over the shorter length
Ascii_Compare_NoLengthTest(text1, text1Length, text2, text2Length) ==
    Memcmp(text1, text2, 0, Min2(text1Length, text2Length)) = 0
\* bool Ascii_Compare(const char *text1, size_t text1Length,
\*                    const char* text2, size_t text2Length)
Ascii_Compare(text1, text1Length, text2, text2Length) ==
    IF text1Length /= text2Length THEN FALSE
    ELSE Memcmp(text1, text2, 0, text1Length) = 0

NoTextCall == [op |-> "none", kind |-> "Ascii", equal |-> FALSE]

Call_Text_GetKind ==
    /\ tk.op = "none"
    /\ tk' = [op |-> "Text_GetKind", kind |-> Text_GetKind(bytes1, Len(bytes1)),
              equal |-> FALSE]
    /\ UNCHANGED <<bytes1, bytes2>>
    /\ UNCHANGED <<varsLine, varsWide, varsEngine>>

Call_Ascii_Compare ==
    /\ tk.op = "none"
    /\ tk' = [op |-> "Ascii_Compare", kind |-> "Ascii",
              equal |-> Ascii_Compare(bytes1, Len(bytes1), bytes2, Len(bytes2))]
    /\ UNCHANGED <<bytes1, bytes2>>
    /\ UNCHANGED <<varsLine, varsWide, varsEngine>>

\* ---- properties of Text_GetKind ----------------------------------------
Utf8Bom == <<239, 187, 191>>
AllAsciiFrom(buf, first) == \A i \in first .. Len(buf) : buf[i] <= 127
StartsWithBom(buf) == Len(buf) >= 3 /\ SubSeq(buf, 1, 3) = Utf8Bom
ReferenceKind(buf) ==
    CASE StartsWithBom(buf) /\ AllAsciiFrom(buf, 4) -> "AsciiWithUtf8Bom"
      [] StartsWithBom(buf) /\ ~AllAsciiFrom(buf, 4) -> "Utf8WithBom"
      [] ~StartsWithBom(buf) /\ AllAsciiFrom(buf, 1) -> "Ascii"
      [] OTHER -> "Unknown"

\* C5: Text_GetKind agrees with the reference classification on every byte
\* buffer of every length >= 0: BOM + all-ASCII rest is AsciiWithUtf8Bom,
\* BOM + any byte >= 0x80 is Utf8WithBom, otherwise Ascii when all bytes are
\* <= 0x7F and Unknown when not; the empty buffer is Ascii, a proper prefix
\* of the BOM is not a BOM, and the bare BOM is AsciiWithUtf8Bom.
C5_GetKindMatchesReference ==
    tk.op = "Text_GetKind" =>
        /\ tk.kind = ReferenceKind(bytes1)
        /\ (bytes1 = <<>> => tk.kind = "Ascii")
        /\ (bytes1 = Utf8Bom => tk.kind = "AsciiWithUtf8Bom")
        /\ (Len(bytes1) < 3 /\ bytes1 = SubSeq(Utf8Bom, 1, Len(bytes1)) /\ bytes1 /= <<>>
              => tk.kind = "Unknown")

\* a BOM followed by 0x7F has been classified AsciiWithUtf8Bom
C5_Witness ==
    /\ tk.op = "Text_GetKind" /\ bytes1 = Utf8Bom \o <<127>>
    /\ tk.kind = "AsciiWithUtf8Bom"

\* ---- properties of Ascii_Compare ---------------------------------------
\* C9: Ascii_Compare is true exactly when the lengths are equal and the
\* buffers agree at every index below that length; two empty buffers are equal.
C9_CompareIffEqual ==
    tk.op = "Ascii_Compare" =>
        /\ tk.equal <=> (/\ Len(bytes1) = Len(bytes2)
                         /\ \A i \in 1 .. Len(bytes1) : bytes1[i] = bytes2[i])
        /\ (bytes1 = <<>> /\ bytes2 = <<>> => tk.equal)

\* a buffer and a proper prefix of it have been compared and found different
C9_Witness ==
    /\ tk.op = "Ascii_Compare" /\ ~tk.equal
    /\ Len(bytes2) = 2 /\ Len(bytes1) = 3 /\ SubSeq(bytes1, 1, 2) = bytes2

\* ===================================================================
\* Utf16_Search
\* ===================================================================

\* AsciiSearchBase::kMatchCase, the one bit of SearchOptions
kMatchCase == 1
HasFlag(options, flag) == (options \div flag) % 2 = 1

\* wide characters used to fill buffers: 'A', 'a', 'b'
WideChars == {65, 97, 98}

\* std::toupper(ch, std::locale()) under the default ("C") locale
ToUpper(ch) == IF 97 <= ch /\ ch <= 122 THEN ch - 32 ELSE ch

\* struct char_equal_icase: toupper(ch1, loc_) == toupper(ch2, loc_)
char_equal_icase(ch1, ch2) == ToUpper(ch1) = ToUpper(ch2)
\* struct char_equal: ch1 == ch2
char_equal(ch1, ch2) == ch1 = ch2
Pred(matchCase, ch1, ch2) ==
    IF matchCase THEN char_equal(ch1, ch2) ELSE char_equal_icase(ch1, ch2)

\* std::search(first, last, s_first, s_last, pred):
\*   for (;; ++first) { it = first;
\*     for (s_it = s_first;; ++it, ++s_it) {
\*       if (s_it == s_last) return first;
\*       if (it == last) return last;
\*       if (!pred(*it, *s_it)) break; } }
RECURSIVE SearchInner(_, _, _, _, _, _)
SearchInner(t, pat, mc, first, it, s_it) ==
    IF s_it = Len(pat) THEN "match"
    ELSE IF it = Len(t) THEN "end"
    ELSE IF ~Pred(mc, t[it + 1], pat[s_it + 1]) THEN "mismatch"
    ELSE SearchInner(t, pat, mc, first, it + 1, s_it + 1)

RECURSIVE StdSearch(_, _, _, _)
StdSearch(t, pat, mc, first) ==
    LET r == SearchInner(t, pat, mc, first, first, 0)
    IN IF r = "match" THEN first
       ELSE IF r = "end" THEN Len(t)
       ELSE StdSearch(t, pat, mc, first + 1)

NoWideCall == [op |-> "none", found |-> FALSE, offset |-> 0]

\* const wchar_t* Utf16_Search(text, textLength, pattern, patternLength, options)
\* found = (the returned pointer is not nullptr), offset = result - text
Utf16_Search(t, pat, options) ==
    LET textEnd == Len(t)
        result == StdSearch(t, pat, HasFlag(options, kMatchCase), 0)
    IN IF result = textEnd
       THEN [op |-> "Utf16_Search", found |-> FALSE, offset |-> 0]
       ELSE [op |-> "Utf16_Search", found |-> TRUE, offset |-> result]

Call_Utf16_Search ==
    /\ ws.op = "none"
    /\ ws' = Utf16_Search(wtext, wpattern, woptions)
    /\ UNCHANGED <<wtext, wpattern, woptions>>
    /\ UNCHANGED <<varsLine, varsText, varsEngine>>

\* ---- properties of Utf16_Search ----------------------------------------
UnitsMatch(a, b) ==
    IF woptions \in {1, 3} THEN a = b
    ELSE \/ a = b
         \/ (a \in 97 .. 122 /\ b = a - 32)
         \/ (b \in 97 .. 122 /\ a = b - 32)
Occurrences ==
    {k \in 0 .. Len(wtext) - Len(wpattern) :
        \A i \in 1 .. Len(wpattern) : UnitsMatch(wtext[k + i], wpattern[i])}

\* C6: Utf16_Search returns the smallest offset k, 0 <= k <= n - m, at which
\* the pattern matches (by equality with match-case, by upper-cased equality
\* without), and not-found exactly when there is no such k; the empty
\* pattern and the empty text included.
C6_FirstOccurrence ==
    ws.op = "Utf16_Search" =>
        /\ ws.found <=> Occurrences /= {}
        /\ ws.found => ws.offset = MinOf(Occurrences)

\* the same statement with the one input where text and pattern are both
\* empty left out (the code's behaviour everywhere else)
C6_FirstOccurrenceUnlessBothEmpty ==
    (ws.op = "Utf16_Search" /\ ~(wtext = <<>> /\ wpattern = <<>>)) =>
        /\ ws.found <=> Occurrences /= {}
        /\ ws.found => ws.offset = MinOf(Occurrences)

\* ===================================================================
\* AsciiSearchAlgorithm_Create / _Delete
\* ===================================================================

\* enum SearchAlgorithmKind
kStrStr == 1
kBndm32 == 2
kBndm64 == 3
kBoyerMoore == 4
kRegex == 5
kRe2 == 6

\* a null pointer; objects live at addresses 1 .. MaxInstances
NULL == 0
Addresses == 1 .. MaxInstances

\* HRESULT values (32-bit signed) and the FAILED() macro
S_OK == 0
E_OUTOFMEMORY == -2147024882
E_INVALIDARG == -2147024809
FAILED(hr) == hr < 0

\* AsciiSearchBase::SearchCreateResult(): a record reporting success
SearchCreateResult == [HResult |-> S_OK, ErrorMessage |-> ""]
\* SearchCreateResult::SetError(hr, message)
SetError(hr, message) == [HResult |-> hr, ErrorMessage |-> message]

\* records a caller may hand in: fresh, or left over from an earlier call
PriorResults ==
    {SearchCreateResult, SetError(E_OUTOFMEMORY, "Out of memory"),
     SetError(E_INVALIDARG, "Invalid pattern")}

\* the arguments drawn for Create: two values outside the enumeration too
Kinds == 0 .. 7
PatternLens == {1, 32, 33, 64, 65}
OptionValues == {0, 1}

\* the switch with its cases for kBndm32 and kBndm64 exchanged
SearchClass_Exchanged(kind, options) ==
    CASE kind = kBndm64 ->
           IF HasFlag(options, kMatchCase) THEN "Bndm32Search<CaseSensitive>"
           ELSE "Bndm32Search<CaseInsensitive>"
      [] kind = kBndm32 ->
           IF HasFlag(options, kMatchCase) THEN "Bndm64Search<CaseSensitive>"
           ELSE "Bndm64Search<CaseInsensitive>"
      [] kind = kBoyerMoore -> "BoyerMooreSearch"
      [] kind = kStrStr -> "StrStrSearch"
      [] kind = kRegex -> "RegexSearch"
      [] kind = kRe2 -> "RE2Search"
      [] OTHER -> "NULL"
\* switch(kind) { case ...: result = new ...; break; }: the class instantiated,
\* "NULL" when no case applies and result stays NULL
SearchClass(kind, options) ==
    CASE kind = kBndm32 ->
           IF HasFlag(options, kMatchCase) THEN "Bndm32Search<CaseSensitive>"
           ELSE "Bndm32Search<CaseInsensitive>"
      [] kind = kBndm64 ->
           IF HasFlag(options, kMatchCase) THEN "Bndm64Search<CaseSensitive>"
           ELSE "Bndm64Search<CaseInsensitive>"
      [] kind = kBoyerMoore -> "BoyerMooreSearch"
      [] kind = kStrStr -> "StrStrSearch"
      [] kind = kRegex -> "RegexSearch"
      [] kind = kRe2 -> "RE2Search"
      [] OTHER -> "NULL"

Classes ==
    {"Bndm32Search<CaseSensitive>", "Bndm32Search<CaseInsensitive>",
     "Bndm64Search<CaseSensitive>", "Bndm64Search<CaseInsensitive>",
     "BoyerMooreSearch", "StrStrSearch", "RegexSearch", "RE2Search"}

\* result->PreProcess(pattern, patternLen, options, *searchCreateResult):
\* the records it can leave behind, given the record it was handed.  It
\* either leaves the record alone or reports a failure through SetError.
PreProcess(cls, patternLen, options, rec) ==
    {rec, SetError(E_INVALIDARG, "Invalid pattern"),
     SetError(E_OUTOFMEMORY, "Out of memory")}

Live(h) == {a \in Addresses : h[a] /= "free"}
EmptyHeap == [a \in Addresses |-> "free"]

NoEngineCall ==
    [op |-> "none", kind |-> 0, patternLen |-> 0, options |-> 0, cls |-> "NULL",
     allocated |-> NULL, ret |-> NULL, liveBefore |-> {}, ppFailed |-> FALSE,
     prior |-> SearchCreateResult]

\* Create that forgets `delete result` when PreProcess failed
CreateOutcome_NoDelete(h, kind, patternLen, options, addr, rec) ==
    LET cls == SearchClass(kind, options)
        result == IF cls = "NULL" THEN NULL ELSE addr
        h1 == IF result = NULL THEN h ELSE [h EXCEPT ![addr] = cls]
    IN IF result = NULL
       THEN [heap |-> h1, rec |-> SetError(E_OUTOFMEMORY, "Out of memory"),
             ret |-> result, cls |-> cls, allocated |-> NULL, ppFailed |-> FALSE]
       ELSE IF FAILED(rec.HResult)
            THEN [heap |-> h1, rec |-> rec,
                  ret |-> NULL, cls |-> cls, allocated |-> result, ppFailed |-> TRUE]
            ELSE [heap |-> h1, rec |-> rec,
                  ret |-> result, cls |-> cls, allocated |-> result, ppFailed |-> FALSE]

\* AsciiSearchAlgorithm_Create after (*searchCreateResult) = SearchCreateResult():
\* addr is the address operator new hands out, rec the record PreProcess
\* leaves.  Yields the heap, the record and the pointer returned.
CreateOutcome(h, kind, patternLen, options, addr, rec) ==
    LET cls == SearchClass(kind, options)
        result == IF cls = "NULL" THEN NULL ELSE addr
        h1 == IF result = NULL THEN h ELSE [h EXCEPT ![addr] = cls]
    IN IF result = NULL                                  \* if (!result)
       THEN [heap |-> h1, rec |-> SetError(E_OUTOFMEMORY, "Out of memory"),
             ret |-> result, cls |-> cls, allocated |-> NULL, ppFailed |-> FALSE]
       ELSE IF FAILED(rec.HResult)                       \* delete result; return NULL
            THEN [heap |-> [h1 EXCEPT ![result] = "free"], rec |-> rec,
                  ret |-> NULL, cls |-> cls, allocated |-> result, ppFailed |-> TRUE]
            ELSE [heap |-> h1, rec |-> rec,
                  ret |-> result, cls |-> cls, allocated |-> result, ppFailed |-> FALSE]

AsciiSearchAlgorithm_Create ==
    \E kind \in Kinds, patternLen \in PatternLens, options \in OptionValues :
      \E addr \in (IF SearchClass(kind, options) = "NULL" THEN {NULL}
                    ELSE {a \in Addresses : heap[a] = "free"}) :
        /\ \E rec \in PreProcess(SearchClass(kind, options), patternLen, options,
                                 SearchCreateResult) :
             LET o == CreateOutcome(heap, kind, patternLen, options, addr, rec)
             IN /\ heap' = o.heap
                /\ createResult' = o.rec
                /\ cr' = [op |-> "Create", kind |-> kind, patternLen |-> patternLen,
                          options |-> options, cls |-> o.cls, allocated |-> o.allocated,
                          ret |-> o.ret, liveBefore |-> Live(heap),
                          ppFailed |-> o.ppFailed, prior |-> createResult]
        /\ UNCHANGED srch
        /\ UNCHANGED <<varsLine, varsText, varsWide>>

\* AsciiSearchAlgorithm_Delete(search): delete search;
AsciiSearchAlgorithm_Delete ==
    \E search \in Live(heap) :
        /\ heap' = [heap EXCEPT ![search] = "free"]
        /\ cr' = [NoEngineCall EXCEPT !.op = "Delete", !.allocated = search,
                                      !.liveBefore = Live(heap)]
        /\ UNCHANGED <<createResult, srch>>
        /\ UNCHANGED <<varsLine, varsText, varsWide>>

\* ---- properties of Create ----------------------------------------------
\* C3: Create returns an instance exactly when the record reports success;
\* when PreProcess reports a failure the record carries that error, the
\* fresh instance is destroyed and null is returned; a kind outside the six
\* enumerated values yields null and a populated error record.
C3_InstanceIffSuccess ==
    cr.op = "Create" =>
        /\ (cr.ret /= NULL) <=> ~FAILED(createResult.HResult)
        /\ cr.ret /= NULL => (cr.ret \in Live(heap) /\ cr.ret \notin cr.liveBefore)
        /\ cr.ret = NULL => Live(heap) = cr.liveBefore
        /\ cr.ppFailed =>
              /\ cr.ret = NULL /\ cr.allocated \notin Live(heap)
              /\ FAILED(createResult.HResult) /\ createResult.ErrorMessage /= ""
        /\ cr.kind \notin 1 .. 6 =>
              /\ cr.ret = NULL
              /\ FAILED(createResult.HResult) /\ createResult.ErrorMessage /= ""

\* a Create whose PreProcess failed, called with a record that an earlier
\* call had left reporting something else
C3_Witness ==
    /\ cr.op = "Create" /\ cr.ppFailed /\ cr.allocated /= NULL /\ cr.ret = NULL
    /\ cr.prior.HResult = E_OUTOFMEMORY /\ createResult.HResult = E_INVALIDARG

ClassFamily(cls) ==
    CASE cls \in {"Bndm32Search<CaseSensitive>", "Bndm32Search<CaseInsensitive>"} -> "narrow"
      [] cls \in {"Bndm64Search<CaseSensitive>", "Bndm64Search<CaseInsensitive>"} -> "wide"
      [] cls = "BoyerMooreSearch" -> "general"
      [] OTHER -> "other"

IdleSearch ==
    [pc |-> "idle", search |-> NULL, textLen |-> 0, matchAt |-> 0, pos |-> 0,
     cancel |-> FALSE, cancelCalls |-> 0, posAtCancel |-> 0, stepsAfterCancel |-> 0,
     result |-> "none", offset |-> 0]

\* AsciiSearchBase::CancelSearch(searchParams): raises the cancellation flag
\* of the call
CancelSearch(p) == [p EXCEPT !.cancel = TRUE]

\* AsciiSearchBase::Search(searchParams), one step of its scan: the flag is
\* polled, then the position is examined.  matchAt = textLen stands for a
\* buffer without a match.
SearchScanStep(p) ==
    IF p.cancel THEN [p EXCEPT !.pc = "done", !.result = "notfound"]
    ELSE IF p.pos = p.textLen THEN [p EXCEPT !.pc = "done", !.result = "notfound"]
    ELSE IF p.pos = p.matchAt
         THEN [p EXCEPT !.pc = "done", !.result = "found", !.offset = p.pos]
         ELSE [p EXCEPT !.pos = p.pos + 1]

\* the export that drops the request instead of forwarding it
ForwardCancelSearch_Dropped(p) == p
\* AsciiSearchAlgorithm_CancelSearch: search->CancelSearch(searchParams);
ForwardCancelSearch(p) == CancelSearch(p)

\* AsciiSearchAlgorithm_Search: search->Search(searchParams); the call enters
\* the engine with fresh SearchParams
AsciiSearchAlgorithm_Search ==
    /\ srch.pc = "idle"
    /\ \E search \in Live(heap), textLen \in 1 .. MaxScanLen :
         \E matchAt \in 0 .. textLen :
           srch' = [IdleSearch EXCEPT !.pc = "scanning", !.search = search,
                                      !.textLen = textLen, !.matchAt = matchAt]
    /\ UNCHANGED <<heap, createResult, cr>>
    /\ UNCHANGED <<varsLine, varsText, varsWide>>

\* the searching thread runs one step of the scan
Search_Step ==
    /\ srch.pc = "scanning"
    /\ srch' = [SearchScanStep(srch) EXCEPT
                  !.stepsAfterCancel = IF srch.cancelCalls > 0 THEN @ + 1 ELSE @]
    /\ UNCHANGED <<heap, createResult, cr>>
    /\ UNCHANGED <<varsLine, varsText, varsWide>>

\* search->Search returns to the caller of the export
Search_Return ==
    /\ srch.pc = "done"
    /\ srch' = IdleSearch
    /\ UNCHANGED <<heap, createResult, cr>>
    /\ UNCHANGED <<varsLine, varsText, varsWide>>

\* another thread calls the export while the Search call is in flight
\* (at most MaxCancelCalls times per call)
AsciiSearchAlgorithm_CancelSearch ==
    /\ srch.pc = "scanning"
    /\ srch.cancelCalls < MaxCancelCalls
    /\ srch' = [ForwardCancelSearch(srch) EXCEPT
                  !.cancelCalls = @ + 1,
                  !.posAtCancel = IF srch.cancelCalls = 0 THEN srch.pos ELSE @]
    /\ UNCHANGED <<heap, createResult, cr>>
    /\ UNCHANGED <<varsLine, varsText, varsWide>>

\* ---- properties of cancellation ----------------------------------------
C7_ObservedPromptly ==
    srch.cancelCalls > 0 =>
        /\ srch.stepsAfterCancel <= 1
        /\ srch.pos = srch.posAtCancel
        /\ srch.pc = "done" => srch.result = "notfound"
        /\ srch.stepsAfterCancel = 1 => srch.pc = "done"
C7_SecondCancelChangesNothing ==
    (srch.cancelCalls >= 1 /\ srch'.cancelCalls = srch.cancelCalls + 1) =>
        srch' = [srch EXCEPT !.cancelCalls = @ + 1]

IdleText == bytes1 = <<>> /\ bytes2 = <<>> /\ tk = NoTextCall
IdleWide == wtext = <<>> /\ wpattern = <<>> /\ woptions = 0 /\ ws = NoWideCall
IdleEngine ==
    /\ heap = EmptyHeap /\ createResult = SearchCreateResult
    /\ cr = NoEngineCall /\ srch = IdleSearch
IdleLine == charType = "char" /\ text = <<>> /\ position = 0 /\ maxOffset = 0 /\ le = NoLineCall

InitLine ==
    /\ charType \in {"char", "wchar_t"}
    /\ text \in SeqsUpTo(CharsOf(charType), MaxLen)
    /\ position \in -1 .. MaxLen + 1
    /\ maxOffset \in -1 .. MaxLen + 1
    /\ le = NoLineCall
    /\ IdleText /\ IdleWide /\ IdleEngine

NextLine == Ascii_GetLineExtentFromPosition \/ Utf16_GetLineExtentFromPosition

SpecLine == InitLine /\ [][NextLine]_vars

InitKind ==
    /\ bytes1 \in SeqsUpTo(KindBytes, MaxKindLen)
    /\ bytes2 = <<>>
    /\ tk = NoTextCall
    /\ IdleLine /\ IdleWide /\ IdleEngine

NextKind == Call_Text_GetKind

SpecKind == InitKind /\ [][NextKind]_vars

InitCompare ==
    /\ bytes1 \in SeqsUpTo(CmpBytes, MaxCmpLen)
    /\ bytes2 \in SeqsUpTo(CmpBytes, MaxCmpLen)
    /\ tk = NoTextCall
    /\ IdleLine /\ IdleWide /\ IdleEngine

NextCompare == Call_Ascii_Compare

SpecCompare == InitCompare /\ [][NextCompare]_vars

InitWide ==
    /\ wtext \in SeqsUpTo(WideChars, MaxWideTextLen)
    /\ wpattern \in SeqsUpTo(WideChars, MaxWidePatternLen)
    /\ woptions \in 0 .. 3
    /\ ws = NoWideCall
    /\ IdleLine /\ IdleText /\ IdleEngine

NextWide == Call_Utf16_Search

SpecWide == InitWide /\ [][NextWide]_vars

InitCreate ==
    /\ heap = EmptyHeap
    /\ createResult \in PriorResults
    /\ cr = NoEngineCall
    /\ srch = IdleSearch
    /\ IdleLine /\ IdleText /\ IdleWide

NextCreate == AsciiSearchAlgorithm_Create \/ AsciiSearchAlgorithm_Delete

SpecCreate == InitCreate /\ [][NextCreate]_vars

\* one instance, as a successful Create left it
InitSearch ==
    /\ \E cls \in Classes : heap = [EmptyHeap EXCEPT ![1] = cls]
    /\ createResult = SearchCreateResult
    /\ cr = NoEngineCall
    /\ srch = IdleSearch
    /\ IdleLine /\ IdleText /\ IdleWide

NextSearch ==
    \/ AsciiSearchAlgorithm_Search
    \/ Search_Step
    \/ Search_Return
    \/ AsciiSearchAlgorithm_CancelSearch

SpecSearch == InitSearch /\ [][NextSearch]_vars

====
